---- MODULE Spec2Model ----
(***************************************************************************)
(* Model of the build-time media scripts of the repository: the stable-   *)
(* frame thumbnail extractor (src/dev/optimize-vids-agressive.js, second  *)
(* half), one call of its similarity scorer over every diagnostic text,   *)
(* and the freshness gates of the sibling scripts.                         *)
(*                                                                         *)
(* Units: times (timestamps, durations) are in hundredths of a second,     *)
(* motion scores and SSIM values in hundredths (1.0 = 100).  File          *)
(* modification times are ticks of one clock.  A file name is a sequence   *)
(* of tokens, so that startsWith / endsWith are prefix / suffix tests.     *)
(***************************************************************************)
EXTENDS Integers, Sequences, FiniteSets, TLC

(* ---------------------------------------------------------------- bounds *)
MaxFrames == 4
MaxLeftover == 2
MaxClock == 3
MaxRuns == 2
MaxFiles == 2
MaxText == 2

(* ------------------------------------------------------ program constants *)
WindowStart == 50
MaxWindowEnd == 1000
SampleStep == 50
ShortBurstOffset == 50
SamplingFailedOffset == 100
FallbackTimestamp == 200
NeutralScore == 50
FullSimilarity == 100

OUTPUT_BASE_FILENAME == <<"firstframe">>
WebpExt == <<".webp">>

(* ------------------------------------------------------------ input sets *)
Durations == {100, 160, 170, 400, 1000, 5000}
InitTimes == 1..2

Min(a, b) == IF a < b THEN a ELSE b
Max(a, b) == IF a > b THEN a ELSE b

(* ------------------------------------------------------------ file names *)
StartsWith(s, p) == Len(s) >= Len(p) /\ SubSeq(s, 1, Len(p)) = p
EndsWith(s, p) == Len(s) >= Len(p) /\ SubSeq(s, Len(s) - Len(p) + 1, Len(s)) = p

\* the value rounded to whole seconds, printed with a decimal 0
toFixedWhole(t) == <<ToString((t + 50) \div 100), "0">>

\* Number.prototype.toFixed(1): the value rounded to tenths, as <<int, frac>>
toFixed1(t) == LET tenths == (t + 5) \div 10 IN <<ToString(tenths \div 10), ToString(tenths % 10)>>

\* the decimal point kept
timestampFormattedWithPoint(t) == <<toFixed1(t)[1], ".", toFixed1(t)[2]>>

\* toFixed(1).replace(".", "-")
timestampFormatted(t) == <<toFixed1(t)[1], "-", toFixed1(t)[2]>>

\* the file written at the placeholder path the caller passed (temp.webp)
outputFilenamePlaceholder(t) == <<"temp">> \o WebpExt

outputFilename(t) == OUTPUT_BASE_FILENAME \o <<"--">> \o timestampFormatted(t) \o <<"s">> \o WebpExt

\* Entries an output directory may hold before the first run
OldVariantA == outputFilename(100)
OldVariantB == outputFilename(150)
PrefixOnlyName == <<"firstframe", ".png">>
ExtOnlyName == <<"temp", ".webp">>

InitNames == {OldVariantA, OldVariantB, PrefixOnlyName, ExtOnlyName}

(* ------------------------------------------------------------------ state *)
VARIABLES
  pc,             \* position of extractVideoThumbnail
  run,            \* which invocation of the script this is
  exitStatus,     \* -1 while running, else the process exit status
  outcome,        \* how the current run ended
  lastRun,        \* how the previous run ended
  gate,           \* answer of needsExtraction in the current run
  spawns,         \* engine processes spawned in the current run, by purpose
  inputDirExists, \* fs.existsSync(INPUT_DIR)
  hasVideo,       \* findFirstVideoFile(INPUT_DIR) finds a file
  srcMtime,       \* mtime of the source video
  srcChanged,     \* the source was modified since the previous run
  videoDuration,  \* duration of the source video
  outDirExists,   \* OUTPUT_DIR exists
  outDir,         \* entries of OUTPUT_DIR: file name -> mtime
  outDirAtStart,  \* outDir when the current run started
  tempExists,     \* temp_frames exists
  tempFrames,     \* frame_001.jpg .. in temp_frames: "old" or "new"
  clock,          \* the file system's clock
  window,         \* startTime, endTime passed to analyzeMotion
  proc,           \* the sampling child process
  promise,        \* the promise analyzeMotion returned
  samplerEnd,     \* how the sampling process ended
  frameFiles,     \* the sorted listing read in the close handler
  motionScores,   \* motionScores of the close handler
  loopI,          \* i of the scoring loop
  extractAt,      \* the -ss of the final extraction
  result,         \* what extractStableFrame resolved to
  ffmpegAvailable, \* what checkFFmpeg answered in the current run
  extraction,     \* how the process of the final extraction ended
  prevArtifact,   \* the file the previous run wrote, and the timestamp it chose
  prog,           \* the script that runs: the thumbnail one or one of its siblings
  bpc,            \* position of the sibling script
  bexit,          \* -1 while the sibling script runs, else its exit status
  binputDir,      \* its INPUT_DIR exists
  inputFiles,     \* its supported input files, each with its output file
  bgate,          \* answer of needsExtraction in the first-frame script
  bclock,         \* the file system's clock
  filesToProcess, \* filesToProcess, as indices of files
  skippedFiles,   \* skippedFiles, as indices of files
  cursor,         \* position of the processing loop in filesToProcess
  successCount,
  failureCount,
  ssimProc,       \* how the ssim process of one calculateFrameDifference call ends
  ssimEvents,     \* the events of that process delivered so far
  ssimPromise     \* the promise calculateFrameDifference returned

fsVars == <<inputDirExists, hasVideo, srcMtime, videoDuration>>
outVars == <<outDirExists, outDir, clock>>
tempVars == <<tempExists, tempFrames>>
selVars == <<window, proc, promise, samplerEnd, frameFiles, motionScores, loopI>>
runVars == <<pc, run, exitStatus, outcome, lastRun, gate, spawns, srcChanged, outDirAtStart, extractAt, result>>
endVars == <<ffmpegAvailable, extraction, prevArtifact>>
thumbVars == <<fsVars, outVars, tempVars, selVars, runVars, endVars>>
listVars == <<filesToProcess, skippedFiles, cursor, successCount, failureCount>>
batchVars == <<prog, bpc, bexit, binputDir, inputFiles, bgate, bclock, listVars>>
scorerVars == <<ssimProc, ssimEvents, ssimPromise>>
vars == <<thumbVars, batchVars, scorerVars>>

NoSpawns == [version |-> 0, probe |-> 0, sample |-> 0, ssim |-> 0, extract |-> 0, simple |-> 0]
NoPromise == [state |-> "none", value |-> 0]
NoProc == [ev |-> "none", code |-> 0, output |-> <<>>]
NoArtifact == [filename |-> <<>>, timestamp |-> 0]
NoExtraction == [ev |-> "none", code |-> 0, exists |-> FALSE]
NoWindow == [startTime |-> 0, endTime |-> 0]
NoResult == [success |-> FALSE, filename |-> <<>>, timestamp |-> 0]
EmptyDir == <<>>

(* ------------------------------------------------------- Incremental Gate *)
RECURSIVE readdirSync(_)
\* fs.readdirSync: the names of a directory, in some order
readdirSync(names) ==
  IF names = {} THEN <<>>
  ELSE LET n == CHOOSE x \in names : TRUE IN <<n>> \o readdirSync(names \ {n})

\* the filter of needsExtraction
isFrameOutput(file) == StartsWith(file, OUTPUT_BASE_FILENAME) /\ EndsWith(file, WebpExt)

\* the test with < for <=: an output as old as the source counts as out of date
upToDateStrict(inputMtime, fileMtime) == inputMtime < fileMtime

\* the test of the loop of needsExtraction
upToDate(inputMtime, fileMtime) == inputMtime <= fileMtime

RECURSIVE allOlder(_, _, _)
\* the for loop of needsExtraction: FALSE at the first up-to-date file
allOlder(inputMtime, dir, files) ==
  IF files = <<>> THEN TRUE
  ELSE IF upToDate(inputMtime, dir[Head(files)]) THEN FALSE
  ELSE allOlder(inputMtime, dir, Tail(files))

\* a gate that always answers stale
needsExtractionAlways(inputMtime, dirExists, dir) == TRUE

needsExtraction(inputMtime, dirExists, dir) ==
  IF ~dirExists THEN TRUE
  ELSE LET existingFiles == SelectSeq(readdirSync(DOMAIN dir), isFrameOutput)
       IN IF Len(existingFiles) = 0 THEN TRUE
          ELSE allOlder(inputMtime, dir, existingFiles)

(* ----------------------------------------------------- Stability Selector *)
\* the window end without the cap of 10 seconds
analysisEndTimeUncapped(duration) == (duration * 3) \div 10

\* Math.min(10, videoInfo.duration * 0.3)
analysisEndTime(duration) == Min(MaxWindowEnd, (duration * 3) \div 10)

\* frames the engine can write for -ss startTime -t (endTime - startTime), fps=2
frameCap(startTime, endTime) ==
  IF endTime - startTime <= 0 THEN 0
  ELSE Min(MaxFrames, (endTime - startTime + SampleStep - 1) \div SampleStep)

\* temp_frames after the engine wrote frame_001 .. frame_n over what was there
writeFrames(frames, n) ==
  [k \in 1..Max(Len(frames), n) |-> IF k <= n THEN "new" ELSE frames[k]]

(* A JavaScript number: a value in hundredths, or NaN *)
Num(v) == [nan |-> FALSE, value |-> v]
NaN == [nan |-> TRUE, value |-> 0]

\* a - b and a < b on numbers: NaN spreads, and compares false
minus(a, b) == IF a.nan \/ b.nan THEN NaN ELSE Num(a.value - b.value)
lt(a, b) == ~a.nan /\ ~b.nan /\ a.value < b.value

(* The diagnostic text of the ssim process is a sequence of characters. *)
AllPrefix == <<"A", "l", "l", ":">>
DigitChars == <<"0", "1", "2", "3", "4", "5", "6", "7", "8", "9">>
isDigit(c) == \E d \in 1..10 : DigitChars[d] = c
digit(c) == (CHOOSE d \in 1..10 : DigitChars[d] = c) - 1

\* the class [0-9.]
inClass(c) == isDigit(c) \/ c = "."

RECURSIVE classEnd(_, _)
\* the last position of the longest run of [0-9.] from position i on (i - 1
\* when there is none)
classEnd(text, i) ==
  IF i <= Len(text) /\ inClass(text[i]) THEN classEnd(text, i + 1) ELSE i - 1

RECURSIVE digitsEnd(_, _)
\* the same for a run of digits
digitsEnd(text, i) ==
  IF i <= Len(text) /\ isDigit(text[i]) THEN digitsEnd(text, i + 1) ELSE i - 1

\* the positions where /All:([0-9.]+)/ matches
matchesAt(text, i) ==
  /\ i + Len(AllPrefix) <= Len(text)
  /\ SubSeq(text, i, i + Len(AllPrefix) - 1) = AllPrefix
  /\ inClass(text[i + Len(AllPrefix)])

\* output.match(/All:([0-9.]+)/): null, or the group of the leftmost match
ssimMatch(text) ==
  IF \E i \in 1..Len(text) : matchesAt(text, i)
  THEN LET i == CHOOSE k \in 1..Len(text) :
                  matchesAt(text, k) /\ \A j \in 1..(k - 1) : ~matchesAt(text, j)
           from == i + Len(AllPrefix)
       IN [found |-> TRUE, group |-> SubSeq(text, from, classEnd(text, from))]
  ELSE [found |-> FALSE, group |-> <<>>]

RECURSIVE decimal(_)
\* the value of a string of digits
decimal(ds) ==
  IF ds = <<>> THEN 0 ELSE 10 * decimal(SubSeq(ds, 1, Len(ds) - 1)) + digit(ds[Len(ds)])

\* parseFloat of a string of digits and points: the longest prefix that is a
\* decimal literal, NaN when that prefix has no digit; kept to hundredths
parseFloat(str) ==
  LET intEnd == digitsEnd(str, 1)
      hasPoint == intEnd < Len(str) /\ str[intEnd + 1] = "."
      fracEnd == IF hasPoint THEN digitsEnd(str, intEnd + 2) ELSE intEnd
      frac == IF hasPoint THEN SubSeq(str, intEnd + 2, fracEnd) ELSE <<>>
      tenths == IF Len(frac) >= 1 THEN digit(frac[1]) ELSE 0
      hundredths == IF Len(frac) >= 2 THEN digit(frac[2]) ELSE 0
  IN IF intEnd = 0 /\ frac = <<>> THEN NaN
     ELSE Num(100 * decimal(SubSeq(str, 1, intEnd)) + 10 * tenths + hundredths)

\* the close handler of calculateFrameDifference: the exit code is not read
scorerClosed(code, output) ==
  LET m == ssimMatch(output)
  IN IF m.found THEN minus(Num(FullSimilarity), parseFloat(m.group)) ELSE Num(NeutralScore)

\* the error handler of calculateFrameDifference
scorerErrored == Num(NeutralScore)

\* what the promise of calculateFrameDifference resolves to: by the error
\* event when the process cannot be started, else by the close event
calculateFrameDifference(o) ==
  IF o.ev = "error" THEN scorerErrored ELSE scorerClosed(o.code, o.output)

\* what the ssim process of the engine ends in during a run: it cannot be
\* started, or it closes after printing a summary with "All:<ssim>" or without
EngineTexts == {<<"x">>, AllPrefix \o <<"0", ".", "8">>, AllPrefix \o <<"0", ".", "2">>}

ScorerOutcomes ==
  {[ev |-> "error", code |-> 1, output |-> <<>>], [ev |-> "close", code |-> 1, output |-> <<"x">>]}
    \cup {[ev |-> "close", code |-> 0, output |-> text] : text \in EngineTexts}

\* the callback with <= for <: the last of equal minima wins
lessMotionKeepsLast(min, current) == IF ~lt(min.score, current.score) THEN current ELSE min

\* the callback of motionScores.reduce
lessMotion(min, current) == IF lt(current.score, min.score) THEN current ELSE min

RECURSIVE reduceFrom(_, _, _)
reduceFrom(scores, k, acc) ==
  IF k > Len(scores) THEN acc ELSE reduceFrom(scores, k + 1, lessMotion(acc, scores[k]))

\* motionScores.reduce(...) without an initial value
stableFrame(scores) == reduceFrom(scores, 2, scores[1])

\* a handler that ends without calling resolve
resolveNever(p, v) == p

\* a promise that can be settled again
resolveAgain(p, v) == [state |-> "resolved", value |-> v]

resolve(p, v) == IF p.state = "pending" THEN [state |-> "resolved", value |-> v] ELSE p
\* the error swallowed: the promise resolves with no timestamp
rejectSwallowed(p) == resolve(p, 0)

reject(p) == IF p.state = "pending" THEN [state |-> "rejected", value |-> 0] ELSE p

\* the test with < 1: a burst of one frame enters the loop
tooFewFramesOffByOne(files) == Len(files) < 1

\* frameFiles.length < 2
tooFewFrames(files) == Len(files) < 2

\* the short-burst fallback taking the offset of the failed-sampling one
shortBurstTimestampLate(startTime) == startTime + SamplingFailedOffset

\* resolve(startTime + 0.5), the burst is too short
shortBurstTimestamp(startTime) == startTime + ShortBurstOffset

\* the failed-sampling fallback taking the offset of the short-burst one
failedSamplingTimestampEarly(startTime) == startTime + ShortBurstOffset

\* resolve(startTime + 1), the sampler exited with a non-zero status
failedSamplingTimestamp(startTime) == startTime + SamplingFailedOffset

\* the timestamp the catch block of extractStableFrame passes to extractSimpleFrame
simpleTimestamp == FallbackTimestamp

(* ------------------------------------------------------------------- Init *)
\* Output directories before the first run: any of the four names, the two
\* names that are no frame outputs as new as a file can be
InitDirs ==
  {d \in UNION {[S -> InitTimes] : S \in SUBSET InitNames} :
     \A n \in DOMAIN d : ~isFrameOutput(n) => d[n] = MaxClock - 1}

Init ==
  /\ pc = "start" /\ run = 1 /\ exitStatus = -1
  /\ outcome = "none" /\ lastRun = "none" /\ gate = "none"
  /\ spawns = NoSpawns /\ srcChanged = FALSE /\ result = NoResult
  /\ inputDirExists \in BOOLEAN
  /\ hasVideo \in BOOLEAN
  /\ hasVideo => inputDirExists
  /\ IF hasVideo
     THEN srcMtime \in InitTimes /\ videoDuration \in Durations
     ELSE srcMtime = 0 /\ videoDuration = 0
  /\ outDirExists \in BOOLEAN
  /\ IF outDirExists THEN outDir \in InitDirs ELSE outDir = EmptyDir
  /\ outDirAtStart = outDir
  /\ clock = MaxClock - 1
  \* frames an interrupted earlier run left in temp_frames
  /\ \E left \in 0..MaxLeftover :
       /\ tempFrames = [k \in 1..left |-> "old"]
       /\ tempExists = (left > 0)
  /\ window = NoWindow /\ proc = "none" /\ promise = NoPromise
  /\ samplerEnd = "none" /\ frameFiles = <<>> /\ motionScores = <<>> /\ loopI = 0
  /\ extractAt = 0
  /\ ffmpegAvailable = "unknown" /\ extraction = NoExtraction /\ prevArtifact = NoArtifact
  /\ prog = "thumbnail" /\ bpc = "off" /\ bexit = -1 /\ binputDir = FALSE
  /\ inputFiles = <<>> /\ bgate = "none" /\ bclock = 0
  /\ filesToProcess = <<>> /\ skippedFiles = <<>> /\ cursor = 0
  /\ successCount = 0 /\ failureCount = 0
  /\ ssimProc = NoProc /\ ssimEvents = <<>> /\ ssimPromise = NoPromise

(* ---------------------------------------------------------------- actions *)
spawn(kind) == [spawns EXCEPT ![kind] = @ + 1]

\* process.exit(code), or extractVideoThumbnail returning: the run is over
Finish(status, how) ==
  /\ pc' = "done"
  /\ exitStatus' = status
  /\ outcome' = how

\* extractVideoThumbnail up to `await checkFFmpeg()`
Start ==
  /\ pc = "start"
  /\ pc' = "checkFFmpeg"
  /\ spawns' = spawn("version")
  /\ UNCHANGED <<fsVars, outVars, tempVars, selVars>>
  /\ UNCHANGED <<run, exitStatus, outcome, lastRun, gate, srcChanged, outDirAtStart, extractAt, result>>
  /\ UNCHANGED endVars
  /\ UNCHANGED <<batchVars, scorerVars>>

\* the checks with the one of INPUT_DIR left out: a missing directory is
\* taken for a directory without a video
prerequisitesNoDirCheck(hasFFmpeg, dirExists, video) ==
  IF ~hasFFmpeg THEN "fatal" ELSE IF ~video THEN "novideo" ELSE "ok"

\* the checks of extractVideoThumbnail before ensureDirectoryExists(OUTPUT_DIR)
prerequisites(hasFFmpeg, dirExists, video) ==
  IF ~hasFFmpeg \/ ~dirExists THEN "fatal" ELSE IF ~video THEN "novideo" ELSE "ok"

\* checkFFmpeg resolves; extractVideoThumbnail runs up to `await getVideoInfo`
CheckFFmpegDone ==
  /\ pc = "checkFFmpeg"
  /\ \E hasFFmpeg \in BOOLEAN :
       /\ ffmpegAvailable' = IF hasFFmpeg THEN "yes" ELSE "no"
       /\ LET checks == prerequisites(hasFFmpeg, inputDirExists, hasVideo) IN
          IF checks = "fatal"
          THEN /\ Finish(1, "fatal")
               /\ UNCHANGED <<gate, spawns, outDirExists>>
          ELSE IF checks = "novideo"
          THEN /\ Finish(0, "novideo")
               /\ UNCHANGED <<gate, spawns, outDirExists>>
          ELSE \* ensureDirectoryExists(OUTPUT_DIR), then the gate
               /\ outDirExists' = TRUE
               /\ IF needsExtraction(srcMtime, TRUE, outDir)
                  THEN /\ gate' = "stale"
                       /\ pc' = "probe"
                       /\ spawns' = spawn("probe")
                       /\ UNCHANGED <<exitStatus, outcome>>
                  ELSE /\ gate' = "fresh"
                       /\ Finish(0, "fresh")
                       /\ UNCHANGED spawns
  /\ UNCHANGED <<fsVars, outDir, clock, tempVars, selVars>>
  /\ UNCHANGED <<run, lastRun, srcChanged, outDirAtStart, extractAt, result>>
  /\ UNCHANGED <<extraction, prevArtifact>>
  /\ UNCHANGED <<batchVars, scorerVars>>

\* ffprobe ends: getVideoInfo rejects (non-zero exit, unparseable output, the
\* process cannot be started), or resolves and extractStableFrame runs up to
\* `await analyzeMotion`, whose executor creates temp_frames and spawns the sampler
ProbeDone ==
  /\ pc = "probe"
  /\ \E ok \in BOOLEAN :
       IF ~ok
       THEN /\ Finish(1, "probefailed")
            /\ UNCHANGED <<tempVars, selVars, spawns>>
       ELSE /\ pc' = "analyze"
            /\ window' = [startTime |-> WindowStart, endTime |-> analysisEndTime(videoDuration)]
            /\ tempExists' = TRUE
            /\ spawns' = spawn("sample")
            /\ proc' = "running"
            /\ promise' = [state |-> "pending", value |-> 0]
            /\ UNCHANGED <<tempFrames, samplerEnd, frameFiles, motionScores, loopI>>
            /\ UNCHANGED <<exitStatus, outcome>>
  /\ UNCHANGED <<fsVars, outVars>>
  /\ UNCHANGED <<run, lastRun, gate, srcChanged, outDirAtStart, extractAt, result>>
  /\ UNCHANGED endVars
  /\ UNCHANGED <<batchVars, scorerVars>>

\* an exit path that leaves temp_frames behind
rmTempSkipped == UNCHANGED <<tempExists, tempFrames>>

\* fs.rmSync(tempDir, { recursive: true, force: true })
rmTemp == tempExists' = FALSE /\ tempFrames' = <<>>

\* ffmpeg.on("error") of analyzeMotion: the sampler could not be started.
\* The event comes before the "close" event of that process, or after it.
SamplerError ==
  /\ proc \in {"running", "closedfirst"}
  /\ exitStatus # 1
  /\ proc' = IF proc = "running" THEN "errored" ELSE "failed"
  /\ rmTemp
  /\ promise' = reject(promise)
  /\ samplerEnd' = IF proc = "running" THEN "nostart" ELSE samplerEnd
  /\ UNCHANGED <<window, frameFiles, motionScores, loopI>>
  /\ UNCHANGED <<fsVars, outVars, runVars>>
  /\ UNCHANGED endVars
  /\ UNCHANGED <<batchVars, scorerVars>>

\* ffmpeg.on("close") of analyzeMotion, up to its first await
SamplerClose ==
  /\ proc \in {"running", "errored"}
  /\ exitStatus # 1
  /\ \E code \in {0, 1}, n \in 0..MaxFrames, readFails \in BOOLEAN, started \in BOOLEAN :
       /\ proc = "errored" => ~started
       /\ ~started => code # 0 /\ n = 0
       /\ proc' = IF started THEN "closed" ELSE IF proc = "errored" THEN "failed" ELSE "closedfirst"
       /\ n <= frameCap(window.startTime, window.endTime)
       /\ code # 0 => ~readFails
       /\ LET listing == writeFrames(tempFrames, n) IN
          IF code = 0
          THEN IF readFails
               THEN \* readdirSync throws: the catch block
                    /\ rmTemp
                    /\ promise' = reject(promise)
                    /\ samplerEnd' = "readerr"
                    /\ UNCHANGED <<frameFiles, motionScores, loopI, spawns>>
               ELSE IF tooFewFrames(listing)
               THEN /\ rmTemp
                    /\ promise' = resolve(promise, shortBurstTimestamp(window.startTime))
                    /\ samplerEnd' = "ok"
                    /\ frameFiles' = listing
                    /\ UNCHANGED <<motionScores, loopI, spawns>>
               ELSE \* the loop starts: i = 1, calculateFrameDifference is awaited
                    /\ tempFrames' = listing
                    /\ frameFiles' = listing
                    /\ motionScores' = <<>>
                    /\ loopI' = 1
                    /\ spawns' = spawn("ssim")
                    /\ samplerEnd' = "ok"
                    /\ UNCHANGED <<tempExists, promise>>
          ELSE /\ rmTemp
               /\ promise' = resolve(promise, failedSamplingTimestamp(window.startTime))
               /\ samplerEnd' = IF proc = "errored" THEN samplerEnd ELSE "nonzero"
               /\ UNCHANGED <<frameFiles, motionScores, loopI, spawns>>
  /\ UNCHANGED <<window, fsVars, outVars>>
  /\ UNCHANGED <<pc, run, exitStatus, outcome, lastRun, gate, srcChanged, outDirAtStart, extractAt, result>>
  /\ UNCHANGED endVars
  /\ UNCHANGED <<batchVars, scorerVars>>

\* the timestamp of the earlier frame of the pair
pairTimestampOfEarlier(startTime, i) == startTime + (i - 1) * SampleStep

\* const timestamp = startTime + i * 0.5
pairTimestamp(startTime, i) == startTime + i * SampleStep

\* calculateFrameDifference resolves; the loop body ends and either awaits the
\* next pair or the handler runs to its end
ScorerDone ==
  /\ loopI >= 1
  /\ \E o \in ScorerOutcomes :
       LET motionScore == calculateFrameDifference(o)
           timestamp == pairTimestamp(window.startTime, loopI)
           scores == Append(motionScores, [timestamp |-> timestamp, score |-> motionScore, frameIndex |-> loopI])
       IN /\ motionScores' = scores
          /\ IF loopI + 1 < Len(frameFiles)
             THEN /\ loopI' = loopI + 1
                  /\ spawns' = spawn("ssim")
                  /\ UNCHANGED <<tempVars, promise>>
             ELSE /\ loopI' = 0
                  /\ rmTemp
                  /\ promise' = resolve(promise, stableFrame(scores).timestamp)
                  /\ UNCHANGED spawns
  /\ UNCHANGED <<window, proc, samplerEnd, frameFiles, fsVars, outVars>>
  /\ UNCHANGED <<pc, run, exitStatus, outcome, lastRun, gate, srcChanged, outDirAtStart, extractAt, result>>
  /\ UNCHANGED endVars
  /\ UNCHANGED <<batchVars, scorerVars>>

\* the output directory emptied before the file is written
engineWritesAlone(dir, name, wrote, t) == IF wrote THEN (name :> t) ELSE dir

\* the engine of the final extraction ends after writing its output file, or not
engineWrites(dir, name, wrote, t) == IF wrote THEN (name :> t) @@ dir ELSE dir

succeeded(name, t) == [success |-> TRUE, filename |-> name, timestamp |-> t]
failed == [success |-> FALSE, filename |-> <<>>, timestamp |-> 0]

\* the close handler without the test fs.existsSync(finalOutputPath)
stableFrameClosedUnchecked(code, dir, name, t) == IF code = 0 THEN succeeded(name, t) ELSE failed

\* the close handler of the final extraction of extractStableFrame
stableFrameClosed(code, dir, name, t) ==
  IF code = 0
  THEN IF name \in DOMAIN dir THEN succeeded(name, t) ELSE failed
  ELSE failed

\* the close handler of extractSimpleFrame
simpleFrameClosed(code, dir, name, t) ==
  IF code = 0 /\ name \in DOMAIN dir THEN succeeded(name, t) ELSE failed

\* the top level without process.exit(1) on a failure result
TopLevelIgnoresFailure(res, wrote) ==
  /\ result' = res
  /\ Finish(0, IF res.success THEN (IF wrote THEN "extracted" ELSE "foundold") ELSE "extractfailed")

\* extractVideoThumbnail after `await extractStableFrame`
\* (a success is "extracted" when the engine wrote the file in this run and
\* "foundold" when existsSync found a file of that name an earlier run left)
TopLevel(res, wrote) ==
  /\ result' = res
  /\ IF res.success
     THEN Finish(0, IF wrote THEN "extracted" ELSE "foundold")
     ELSE Finish(1, "extractfailed")

\* analyzeMotion resolved: extractStableFrame runs up to the spawn of the extraction
AnalyzeResolved ==
  /\ pc = "analyze"
  /\ promise.state = "resolved"
  /\ pc' = "extract"
  /\ extractAt' = promise.value
  /\ spawns' = spawn("extract")
  /\ frameFiles' = <<>>
  /\ motionScores' = <<>>
  /\ UNCHANGED <<window, proc, promise, samplerEnd, loopI>>
  /\ UNCHANGED <<fsVars, outVars, tempVars>>
  /\ UNCHANGED <<run, exitStatus, outcome, lastRun, gate, srcChanged, outDirAtStart, result>>
  /\ UNCHANGED endVars
  /\ UNCHANGED <<batchVars, scorerVars>>

\* the rejection of analyzeMotion not caught in extractStableFrame: it reaches
\* the catch block of extractVideoThumbnail, which exits with status 1
AnalyzeRejectedUncaught ==
  /\ pc = "analyze"
  /\ promise.state = "rejected"
  /\ Finish(1, "selectionfailed")
  /\ frameFiles' = <<>>
  /\ motionScores' = <<>>
  /\ UNCHANGED <<window, proc, promise, samplerEnd, loopI>>
  /\ UNCHANGED <<fsVars, outVars, tempVars>>
  /\ UNCHANGED <<run, lastRun, gate, spawns, srcChanged, outDirAtStart, extractAt, result>>
  /\ UNCHANGED endVars
  /\ UNCHANGED <<batchVars, scorerVars>>

\* analyzeMotion rejected: the catch block calls extractSimpleFrame(.., 2.0)
AnalyzeRejected ==
  /\ pc = "analyze"
  /\ promise.state = "rejected"
  /\ pc' = "simple"
  /\ extractAt' = simpleTimestamp
  /\ spawns' = spawn("simple")
  /\ frameFiles' = <<>>
  /\ motionScores' = <<>>
  /\ UNCHANGED <<window, proc, promise, samplerEnd, loopI>>
  /\ UNCHANGED <<fsVars, outVars, tempVars>>
  /\ UNCHANGED <<run, exitStatus, outcome, lastRun, gate, srcChanged, outDirAtStart, result>>
  /\ UNCHANGED endVars
  /\ UNCHANGED <<batchVars, scorerVars>>

\* ffmpeg.on("close") of the final extraction of extractStableFrame
ExtractClose ==
  /\ pc = "extract"
  /\ \E code \in {0, 1}, wrote \in BOOLEAN, t \in clock..MaxClock :
       /\ ~wrote => t = clock
       /\ LET name == outputFilename(extractAt)
              dir == engineWrites(outDir, name, wrote, t)
          IN /\ outDir' = dir
             /\ clock' = t
             /\ extraction' = [ev |-> "close", code |-> code, exists |-> name \in DOMAIN dir]
             /\ TopLevel(stableFrameClosed(code, dir, name, extractAt), wrote)
  /\ UNCHANGED <<fsVars, outDirExists, tempVars, selVars>>
  /\ UNCHANGED <<run, lastRun, gate, spawns, srcChanged, outDirAtStart, extractAt>>
  /\ UNCHANGED <<ffmpegAvailable, prevArtifact>>
  /\ UNCHANGED <<batchVars, scorerVars>>

\* a start failure of the extraction retried through extractSimpleFrame
ExtractErrorRetried ==
  /\ pc = "extract"
  /\ pc' = "simple"
  /\ spawns' = spawn("simple")
  /\ UNCHANGED <<fsVars, outVars, tempVars, selVars>>
  /\ UNCHANGED <<run, exitStatus, outcome, lastRun, gate, srcChanged, outDirAtStart, extractAt, result>>
  /\ UNCHANGED endVars
  /\ UNCHANGED <<batchVars, scorerVars>>

\* ffmpeg.on("error") of the final extraction of extractStableFrame
ExtractError ==
  /\ pc = "extract"
  /\ extraction' = [ev |-> "error", code |-> 1, exists |-> outputFilename(extractAt) \in DOMAIN outDir]
  /\ TopLevel(failed, FALSE)
  /\ UNCHANGED <<fsVars, outVars, tempVars, selVars>>
  /\ UNCHANGED <<run, lastRun, gate, spawns, srcChanged, outDirAtStart, extractAt>>
  /\ UNCHANGED <<ffmpegAvailable, prevArtifact>>
  /\ UNCHANGED <<batchVars, scorerVars>>

\* ffmpeg.on("close") of extractSimpleFrame
SimpleClose ==
  /\ pc = "simple"
  /\ \E code \in {0, 1}, wrote \in BOOLEAN, t \in clock..MaxClock :
       /\ ~wrote => t = clock
       /\ LET name == outputFilename(extractAt)
              dir == engineWrites(outDir, name, wrote, t)
          IN /\ outDir' = dir
             /\ clock' = t
             /\ extraction' = [ev |-> "close", code |-> code, exists |-> name \in DOMAIN dir]
             /\ TopLevel(simpleFrameClosed(code, dir, name, extractAt), wrote)
  /\ UNCHANGED <<fsVars, outDirExists, tempVars, selVars>>
  /\ UNCHANGED <<run, lastRun, gate, spawns, srcChanged, outDirAtStart, extractAt>>
  /\ UNCHANGED <<ffmpegAvailable, prevArtifact>>
  /\ UNCHANGED <<batchVars, scorerVars>>

\* ffmpeg.on("error") of extractSimpleFrame
SimpleError ==
  /\ pc = "simple"
  /\ extraction' = [ev |-> "error", code |-> 1, exists |-> outputFilename(extractAt) \in DOMAIN outDir]
  /\ TopLevel(failed, FALSE)
  /\ UNCHANGED <<fsVars, outVars, tempVars, selVars>>
  /\ UNCHANGED <<run, lastRun, gate, spawns, srcChanged, outDirAtStart, extractAt>>
  /\ UNCHANGED <<ffmpegAvailable, prevArtifact>>
  /\ UNCHANGED <<batchVars, scorerVars>>

\* the script is run again
NextRun ==
  /\ pc = "done"
  /\ run < MaxRuns
  /\ exitStatus = 1 \/ proc \notin {"errored", "closedfirst"}
  /\ pc' = "start" /\ run' = run + 1 /\ exitStatus' = -1
  /\ lastRun' = outcome /\ outcome' = "none" /\ gate' = "none"
  /\ spawns' = NoSpawns /\ result' = NoResult /\ srcChanged' = FALSE
  /\ outDirAtStart' = outDir
  /\ window' = NoWindow /\ proc' = "none" /\ promise' = NoPromise
  /\ samplerEnd' = "none" /\ frameFiles' = <<>> /\ motionScores' = <<>> /\ loopI' = 0
  /\ extractAt' = 0
  /\ ffmpegAvailable' = "unknown" /\ extraction' = NoExtraction
  /\ prevArtifact' = IF outcome = "extracted"
                     THEN [filename |-> result.filename, timestamp |-> result.timestamp]
                     ELSE NoArtifact
  /\ UNCHANGED <<fsVars, outVars, tempVars>>
  /\ UNCHANGED <<batchVars, scorerVars>>

\* the source video is modified between two runs
TouchSource ==
  /\ pc = "start"
  /\ run > 1
  /\ hasVideo
  /\ ~srcChanged
  /\ \E t \in clock..MaxClock :
       /\ srcMtime' = t
       /\ clock' = t
  /\ srcChanged' = TRUE
  /\ UNCHANGED <<inputDirExists, hasVideo, videoDuration, outDirExists, outDir>>
  /\ UNCHANGED <<tempVars, selVars>>
  /\ UNCHANGED <<pc, run, exitStatus, outcome, lastRun, gate, spawns, outDirAtStart, extractAt, result>>
  /\ UNCHANGED endVars
  /\ UNCHANGED <<batchVars, scorerVars>>

\* a sampler that emitted "error" taken for a process that still runs
samplerLiveUntilClose(p) == p \in {"running", "errored"}

\* the sampling process runs: it was started and has not ended ("error"
\* is emitted only when it could not be started)
samplerLive(p) == p = "running"

Live(b) == IF b THEN 1 ELSE 0

\* the child processes that were spawned and whose end has not been handled
Running ==
  Live(pc = "checkFFmpeg") + Live(pc = "probe") + Live(samplerLive(proc))
    + Live(loopI >= 1) + Live(pc \in {"extract", "simple"})

Next ==
  \/ Start
  \/ CheckFFmpegDone
  \/ ProbeDone
  \/ SamplerError
  \/ SamplerClose
  \/ ScorerDone
  \/ AnalyzeResolved
  \/ AnalyzeRejected
  \/ ExtractClose
  \/ ExtractError
  \/ SimpleClose
  \/ SimpleError
  \/ NextRun
  \/ TouchSource

Spec == Init /\ [][Next]_vars

\* Every awaited engine process ends ("close" is emitted and its handler
\* runs), and the event loop runs a continuation that is ready.  Nothing is
\* assumed of the "error" events, which a process that starts never emits.
Fairness ==
  /\ WF_vars(Start)
  /\ WF_vars(CheckFFmpegDone)
  /\ WF_vars(ProbeDone)
  /\ WF_vars(SamplerClose)
  /\ WF_vars(ScorerDone)
  /\ WF_vars(AnalyzeResolved)
  /\ WF_vars(AnalyzeRejected)
  /\ WF_vars(ExtractClose)
  /\ WF_vars(SimpleClose)

SpecLive == Init /\ [][Next]_vars /\ Fairness

(* ------------------------------------------------------- sibling scripts *)
\* The first-frame script (one output file), the video compression and the
\* image conversion (one output file per input file).  An output file is a
\* record of fs.existsSync and of the mtime of fs.statSync.
NoFile == [exists |-> FALSE, mtime |-> 0]
FileAt(t) == [exists |-> TRUE, mtime |-> t]

\* the gate with >= for >: an output as old as its source is done again
needsConversionAtEqual(inputMtime, output) ==
  IF ~output.exists THEN TRUE ELSE inputMtime >= output.mtime

\* needsExtraction of the first-frame script
needsExtractionOfFile(inputMtime, output) ==
  IF ~output.exists THEN TRUE ELSE inputMtime > output.mtime

needsCompression(inputMtime, output) ==
  IF ~output.exists THEN TRUE ELSE inputMtime > output.mtime

needsConversion(inputMtime, output) ==
  IF ~output.exists THEN TRUE ELSE inputMtime > output.mtime

\* the gate the running script calls
needsUpdate(script, file) ==
  CASE script = "firstframe" -> needsExtractionOfFile(file.src, file.out)
    [] script = "compress" -> needsCompression(file.src, file.out)
    [] script = "convert" -> needsConversion(file.src, file.out)

RECURSIVE filterLoop(_, _, _, _)
\* the loop that fills filesToProcess and skippedFiles
filterLoop(script, fs, i, lists) ==
  IF i > Len(fs) THEN lists
  ELSE IF needsUpdate(script, fs[i])
       THEN filterLoop(script, fs, i + 1, [lists EXCEPT !.filesToProcess = Append(@, i)])
       ELSE filterLoop(script, fs, i + 1, [lists EXCEPT !.skippedFiles = Append(@, i)])

InputFile == [src : InitTimes, out : {NoFile} \cup {FileAt(t) : t \in InitTimes}]

ThumbnailOff ==
  /\ pc = "off" /\ run = 0 /\ exitStatus = -1
  /\ outcome = "none" /\ lastRun = "none" /\ gate = "none"
  /\ spawns = NoSpawns /\ srcChanged = FALSE /\ result = NoResult
  /\ inputDirExists = FALSE /\ hasVideo = FALSE /\ srcMtime = 0 /\ videoDuration = 0
  /\ outDirExists = FALSE /\ outDir = EmptyDir /\ outDirAtStart = EmptyDir /\ clock = 0
  /\ tempExists = FALSE /\ tempFrames = <<>>
  /\ window = NoWindow /\ proc = "none" /\ promise = NoPromise
  /\ samplerEnd = "none" /\ frameFiles = <<>> /\ motionScores = <<>> /\ loopI = 0
  /\ extractAt = 0
  /\ ffmpegAvailable = "unknown" /\ extraction = NoExtraction /\ prevArtifact = NoArtifact

InitBatch ==
  /\ ThumbnailOff
  /\ prog \in {"firstframe", "compress", "convert"}
  /\ bpc = "start" /\ bexit = -1 /\ bgate = "none"
  /\ binputDir \in BOOLEAN
  /\ \E n \in 0..MaxFiles : inputFiles \in [1..n -> InputFile]
  /\ ~binputDir => inputFiles = <<>>
  /\ bclock = MaxClock - 1
  /\ filesToProcess = <<>> /\ skippedFiles = <<>> /\ cursor = 0
  /\ successCount = 0 /\ failureCount = 0
  /\ ssimProc = NoProc /\ ssimEvents = <<>> /\ ssimPromise = NoPromise

BFinish(status) == bpc' = "done" /\ bexit' = status

\* the filter loop, then the processing loop up to its first await
BeginProcessing(firstStep) ==
  LET lists == filterLoop(prog, inputFiles, 1, [filesToProcess |-> <<>>, skippedFiles |-> <<>>])
  IN /\ filesToProcess' = lists.filesToProcess
     /\ skippedFiles' = lists.skippedFiles
     /\ IF Len(lists.filesToProcess) = 0
        THEN BFinish(0) /\ UNCHANGED cursor
        ELSE bpc' = firstStep /\ cursor' = 1 /\ UNCHANGED bexit

\* the loop left after its first iteration, whatever is still in the list
NextFileStops(firstStep) == cursor' = cursor + 1 /\ BFinish(0)

\* the end of one iteration of the processing loop: the next file, or the summary
NextFile(firstStep) ==
  IF cursor < Len(filesToProcess)
  THEN cursor' = cursor + 1 /\ bpc' = firstStep /\ UNCHANGED bexit
  ELSE cursor' = cursor + 1 /\ BFinish(0)

\* the engine writes (or not) the output of the file the loop is at
outputWritten(k, wrote, t) ==
  IF wrote THEN [inputFiles EXCEPT ![k].out = FileAt(t)] ELSE inputFiles

\* compressVideos and the first-frame extractVideoThumbnail up to `await checkFFmpeg()`
BStart ==
  /\ prog \in {"firstframe", "compress"}
  /\ bpc = "start"
  /\ bpc' = "checkFFmpeg"
  /\ UNCHANGED <<prog, bexit, binputDir, inputFiles, bgate, bclock, listVars>>
  /\ UNCHANGED <<thumbVars, scorerVars>>

\* compressVideos after checkFFmpeg, up to the first `await getVideoInfo`
CompressCheckDone ==
  /\ prog = "compress"
  /\ bpc = "checkFFmpeg"
  /\ \E hasFFmpeg \in BOOLEAN :
       IF ~hasFFmpeg \/ ~binputDir
       THEN BFinish(1) /\ UNCHANGED <<filesToProcess, skippedFiles, cursor>>
       ELSE IF Len(inputFiles) = 0
       THEN BFinish(0) /\ UNCHANGED <<filesToProcess, skippedFiles, cursor>>
       ELSE BeginProcessing("probe")
  /\ UNCHANGED <<prog, binputDir, inputFiles, bgate, bclock, successCount, failureCount>>
  /\ UNCHANGED <<thumbVars, scorerVars>>

\* getVideoInfo settles in compressVideos: a rejection is caught and counted
CompressProbeDone ==
  /\ prog = "compress"
  /\ bpc = "probe"
  /\ \E ok \in BOOLEAN :
       IF ok
       THEN /\ bpc' = "work"
            /\ UNCHANGED <<bexit, cursor, failureCount>>
       ELSE /\ failureCount' = failureCount + 1
            /\ NextFile("probe")
  /\ UNCHANGED <<prog, binputDir, inputFiles, bgate, bclock, filesToProcess, skippedFiles, successCount>>
  /\ UNCHANGED <<thumbVars, scorerVars>>

\* ffmpeg.on("close") of compressVideo: with code 0 fs.statSync(outputPath)
\* throws in the listener when the file is missing, and the process dies
CompressClose ==
  /\ prog = "compress"
  /\ bpc = "work"
  /\ \E code \in {0, 1}, wrote \in BOOLEAN, t \in bclock..MaxClock :
       /\ ~wrote => t = bclock
       /\ LET k == filesToProcess[cursor]
              after == outputWritten(k, wrote, t)
          IN /\ inputFiles' = after
             /\ bclock' = t
             /\ IF code = 0 /\ ~after[k].out.exists
                THEN BFinish(1) /\ UNCHANGED <<cursor, successCount, failureCount>>
                ELSE /\ successCount' = successCount + (IF code = 0 THEN 1 ELSE 0)
                     /\ failureCount' = failureCount + (IF code = 0 THEN 0 ELSE 1)
                     /\ NextFile("probe")
  /\ UNCHANGED <<prog, binputDir, bgate, filesToProcess, skippedFiles>>
  /\ UNCHANGED <<thumbVars, scorerVars>>

\* ffmpeg.on("error") of compressVideo
CompressError ==
  /\ prog = "compress"
  /\ bpc = "work"
  /\ failureCount' = failureCount + 1
  /\ NextFile("probe")
  /\ UNCHANGED <<prog, binputDir, inputFiles, bgate, bclock, filesToProcess, skippedFiles, successCount>>
  /\ UNCHANGED <<thumbVars, scorerVars>>

\* the check that sharp can be imported, then convertImages up to the first
\* `await convertToWebP`
ConvertStart ==
  /\ prog = "convert"
  /\ bpc = "start"
  /\ \E hasSharp \in BOOLEAN :
       IF ~hasSharp \/ ~binputDir
       THEN BFinish(1) /\ UNCHANGED <<filesToProcess, skippedFiles, cursor>>
       ELSE IF Len(inputFiles) = 0
       THEN BFinish(0) /\ UNCHANGED <<filesToProcess, skippedFiles, cursor>>
       ELSE BeginProcessing("work")
  /\ UNCHANGED <<prog, binputDir, inputFiles, bgate, bclock, successCount, failureCount>>
  /\ UNCHANGED <<thumbVars, scorerVars>>

\* convertToWebP returns true (the file was written) or false (it caught an error)
ConvertDone ==
  /\ prog = "convert"
  /\ bpc = "work"
  /\ \E success \in BOOLEAN, t \in bclock..MaxClock :
       /\ ~success => t = bclock
       /\ inputFiles' = outputWritten(filesToProcess[cursor], success, t)
       /\ bclock' = t
       /\ successCount' = successCount + (IF success THEN 1 ELSE 0)
       /\ failureCount' = failureCount + (IF success THEN 0 ELSE 1)
       /\ NextFile("work")
  /\ UNCHANGED <<prog, binputDir, bgate, filesToProcess, skippedFiles>>
  /\ UNCHANGED <<thumbVars, scorerVars>>

\* the first-frame extractVideoThumbnail after checkFFmpeg, up to `await getVideoInfo`
FirstFrameCheckDone ==
  /\ prog = "firstframe"
  /\ bpc = "checkFFmpeg"
  /\ \E hasFFmpeg \in BOOLEAN :
       IF ~hasFFmpeg \/ ~binputDir
       THEN BFinish(1) /\ UNCHANGED bgate
       ELSE IF Len(inputFiles) = 0
       THEN BFinish(0) /\ UNCHANGED bgate
       ELSE IF needsUpdate(prog, inputFiles[1])
       THEN bgate' = "stale" /\ bpc' = "probe" /\ UNCHANGED bexit
       ELSE bgate' = "fresh" /\ BFinish(0)
  /\ UNCHANGED <<prog, binputDir, inputFiles, bclock, listVars>>
  /\ UNCHANGED <<thumbVars, scorerVars>>

\* getVideoInfo settles in the first-frame script
FirstFrameProbeDone ==
  /\ prog = "firstframe"
  /\ bpc = "probe"
  /\ \E ok \in BOOLEAN :
       IF ok THEN bpc' = "work" /\ UNCHANGED bexit ELSE BFinish(1)
  /\ UNCHANGED <<prog, binputDir, inputFiles, bgate, bclock, listVars>>
  /\ UNCHANGED <<thumbVars, scorerVars>>

\* ffmpeg.on("close") of extractFirstFrame, then the end of the script
FirstFrameClose ==
  /\ prog = "firstframe"
  /\ bpc = "work"
  /\ \E code \in {0, 1}, wrote \in BOOLEAN, t \in bclock..MaxClock :
       /\ ~wrote => t = bclock
       /\ LET after == outputWritten(1, wrote, t)
          IN /\ inputFiles' = after
             /\ bclock' = t
             /\ IF code = 0 /\ after[1].out.exists THEN BFinish(0) ELSE BFinish(1)
  /\ UNCHANGED <<prog, binputDir, bgate, listVars>>
  /\ UNCHANGED <<thumbVars, scorerVars>>

\* ffmpeg.on("error") of extractFirstFrame, then the end of the script
FirstFrameError ==
  /\ prog = "firstframe"
  /\ bpc = "work"
  /\ BFinish(1)
  /\ UNCHANGED <<prog, binputDir, inputFiles, bgate, bclock, listVars>>
  /\ UNCHANGED <<thumbVars, scorerVars>>

NextBatch ==
  \/ BStart
  \/ CompressCheckDone
  \/ CompressProbeDone
  \/ CompressClose
  \/ CompressError
  \/ ConvertStart
  \/ ConvertDone
  \/ FirstFrameCheckDone
  \/ FirstFrameProbeDone
  \/ FirstFrameClose
  \/ FirstFrameError

SpecBatch == InitBatch /\ [][NextBatch]_vars

(* ----------------------------------------------------- Similarity Scorer *)
\* One call of calculateFrameDifference, for every text the process may have
\* written to stderr: at most MaxText pieces, one after the other.
Pieces ==
  {AllPrefix, <<"0", ".", "8">>, <<"0", ".", "2">>, <<"1">>, <<"2">>, <<".">>, <<"-">>, <<"x">>}

RECURSIVE Texts(_)
Texts(n) == IF n = 0 THEN {<<>>} ELSE Texts(n - 1) \cup {t \o p : t \in Texts(n - 1), p \in Pieces}

\* the process cannot be started ("error", then "close" with a non-zero
\* code), or it runs and closes with some code
ProcessEnds == [ev : {"error"}, code : {1}, output : Texts(MaxText)]
                 \cup [ev : {"close"}, code : {0, 1}, output : Texts(MaxText)]

InitScorer ==
  /\ ThumbnailOff
  /\ prog = "scorer" /\ bpc = "off" /\ bexit = -1 /\ binputDir = FALSE
  /\ inputFiles = <<>> /\ bgate = "none" /\ bclock = 0
  /\ filesToProcess = <<>> /\ skippedFiles = <<>> /\ cursor = 0
  /\ successCount = 0 /\ failureCount = 0
  /\ ssimProc \in ProcessEnds
  /\ ssimEvents = <<>>
  /\ ssimPromise = [state |-> "pending", value |-> 0]

\* ffmpeg.on("error") of calculateFrameDifference
ScorerError ==
  /\ prog = "scorer"
  /\ ssimProc.ev = "error"
  /\ ssimEvents = <<>>
  /\ ssimEvents' = <<"error">>
  /\ ssimPromise' = resolve(ssimPromise, scorerErrored)
  /\ UNCHANGED <<ssimProc, thumbVars, batchVars>>

\* ffmpeg.on("close") of calculateFrameDifference
ScorerClose ==
  /\ prog = "scorer"
  /\ ssimProc.ev = "close" \/ ssimEvents = <<"error">>
  /\ \A k \in 1..Len(ssimEvents) : ssimEvents[k] # "close"
  /\ ssimEvents' = Append(ssimEvents, "close")
  /\ ssimPromise' = resolve(ssimPromise, scorerClosed(ssimProc.code, ssimProc.output))
  /\ UNCHANGED <<ssimProc, thumbVars, batchVars>>

NextScorer == ScorerError \/ ScorerClose

SpecScorer == InitScorer /\ [][NextScorer]_vars

(* ------------------------------------------------------------- properties *)
Settled == promise.state \in {"resolved", "rejected"}

\* the smallest index of a minimal score of motionScores
FirstMinimum ==
  CHOOSE k \in 1..Len(motionScores) :
    /\ \A j \in 1..Len(motionScores) : motionScores[k].score.value <= motionScores[j].score.value
    /\ \A j \in 1..(k - 1) : motionScores[j].score.value > motionScores[k].score.value

\* C1: for a burst of n >= 2 frames the selector returns windowStart + 0.5 * k,
\* k the smallest index of a minimal adjacent-pair score (ties: the earliest)
C1_FirstMinimumSelected ==
  (pc = "analyze" /\ samplerEnd = "ok" /\ Len(frameFiles) >= 2 /\ Settled)
    => /\ promise.state = "resolved"
       /\ Len(motionScores) = Len(frameFiles) - 1
       /\ promise.value = window.startTime + 50 * FirstMinimum

\* scores [0.8, 0.2, 0.5] select 1.5
C1_Witness ==
  /\ pc = "analyze" /\ promise.state = "resolved"
  /\ Len(motionScores) = 3
  /\ <<motionScores[1].score, motionScores[2].score, motionScores[3].score>> = <<Num(80), Num(20), Num(50)>>
  /\ promise.value = 150

\* C2: with fewer than 2 frames in the burst read after sampling, the selector
\* returns windowStart + 0.5 = 1.0 and the scorer is never invoked
C2_ShortBurstFallback ==
  /\ (pc = "analyze" /\ samplerEnd = "ok" /\ Len(frameFiles) < 2)
       => promise = [state |-> "resolved", value |-> 100] /\ spawns.ssim = 0
  /\ (pc \in {"extract", "done"} /\ samplerEnd = "ok" /\ spawns.ssim = 0)
       => extractAt = 100

C2_Witness ==
  /\ pc = "analyze" /\ samplerEnd = "ok" /\ Len(frameFiles) = 1
  /\ promise.value = 100 /\ spawns.ssim = 0

\* C3 as stated: after a non-zero exit of the sampling engine the selector
\* yields windowStart + 0.5 without an error and without scoring
C3_AsStated ==
  (pc = "analyze" /\ samplerEnd = "nonzero")
    => promise = [state |-> "resolved", value |-> WindowStart + 50] /\ spawns.ssim = 0

\* C3 amended: after a non-zero exit of the sampling engine the selector
\* raises no error, never scores, and yields windowStart + 1
C3_NonZeroExitFallback ==
  /\ (pc = "analyze" /\ samplerEnd = "nonzero")
       => promise = [state |-> "resolved", value |-> WindowStart + 100] /\ spawns.ssim = 0
  /\ (pc \in {"extract", "done"} /\ samplerEnd = "nonzero")
       => extractAt = WindowStart + 100 /\ spawns.ssim = 0 /\ spawns.simple = 0

C3_Witness ==
  pc = "extract" /\ samplerEnd = "nonzero" /\ extractAt = 150

\* C4: when the selection throws (the sampler cannot be started, reading the
\* frames fails) the caller runs the simple extraction once, at 2.0, and the
\* run ends by the result of that extraction, not by an exception
C4_SelectionFailureFallsBack ==
  /\ (pc = "analyze" /\ samplerEnd \in {"nostart", "readerr"}) => promise.state = "rejected"
  /\ (samplerEnd \in {"nostart", "readerr"} /\ pc \in {"simple", "done"})
       => spawns.simple = 1 /\ spawns.extract = 0 /\ extractAt = 200
  /\ (samplerEnd \in {"nostart", "readerr"} /\ pc = "done")
       => /\ outcome \in {"extracted", "foundold", "extractfailed"}
          /\ result.success => result.timestamp = 200

C4_Witness ==
  pc = "done" /\ samplerEnd = "readerr" /\ result.success /\ spawns.simple = 1

\* C5: once a selector invocation has settled, on any of its exit paths, the
\* temporary frame directory does not exist
C5_TempDirRemoved == Settled => ~tempExists /\ tempFrames = <<>>

C5_Witness ==
  /\ pc = "analyze" /\ promise.state = "rejected" /\ samplerEnd = "readerr"
  /\ ~tempExists

\* C6: sampling is requested over the window from 0.5 to min(10, 0.3 * d)
C6_Window ==
  spawns.sample > 0
    => /\ window.startTime = 50
       /\ 10 * window.endTime = (IF 3 * videoDuration <= 10000 THEN 3 * videoDuration ELSE 10000)
       /\ window.endTime <= 1000 /\ 10 * window.endTime <= 3 * videoDuration

C6_Witness ==
  spawns.sample > 0 /\ videoDuration = 5000 /\ window.endTime = 1000

ShortVideo == hasVideo /\ 3 * videoDuration <= 10 * WindowStart

\* C7 as stated: for a video whose window end is not beyond the window start,
\* the timestamp used is windowStart + 0.5
C7_AsStated ==
  (ShortVideo /\ pc \in {"extract", "simple"}) => extractAt = WindowStart + 50

\* C7 amended: for such a video the selection does not crash; the timestamp
\* used is windowStart + 0.5 when the engine exits with status 0 and the burst
\* read holds fewer than 2 frames, windowStart + 1 when it exits non-zero, and
\* 2.0 when it cannot be started or the frames cannot be read
C7_ShortVideoFallbacks ==
  ShortVideo =>
    /\ (pc = "analyze" /\ samplerEnd = "ok" /\ Len(frameFiles) < 2)
         => promise = [state |-> "resolved", value |-> 100]
    /\ (pc = "analyze" /\ samplerEnd = "nonzero")
         => promise = [state |-> "resolved", value |-> 150]
    /\ (pc = "analyze" /\ samplerEnd \in {"nostart", "readerr"})
         => promise.state = "rejected"
    /\ pc \in {"extract", "simple"}
         => extractAt = (IF promise.state = "resolved" THEN promise.value ELSE 200)
    /\ (pc = "done" /\ spawns.sample > 0)
         => outcome \in {"extracted", "foundold", "extractfailed"}

C7_Witness ==
  ShortVideo /\ pc = "extract" /\ samplerEnd = "ok" /\ spawns.ssim = 0 /\ extractAt = 100

\* the entries of a directory with the output-name prefix and the output extension
FrameOutputs(dir) == {n \in DOMAIN dir : n[1] = "firstframe" /\ n[Len(n)] = ".webp"}

NewestOutput(dir) ==
  CHOOSE t \in {dir[n] : n \in FrameOutputs(dir)} : \A n \in FrameOutputs(dir) : dir[n] <= t

StaleByRule(inputMtime, dirExists, dir) ==
  \/ ~dirExists
  \/ FrameOutputs(dir) = {}
  \/ \A n \in FrameOutputs(dir) : inputMtime > dir[n]

\* C8: needsExtraction on a directory answers stale exactly when the directory
\* is missing, holds no matching entry, or the source is strictly newer than
\* every matching entry (than the newest one)
C8_DirectoryGate ==
  /\ needsExtraction(srcMtime, outDirExists, outDir) = StaleByRule(srcMtime, outDirExists, outDir)
  /\ (outDirExists /\ FrameOutputs(outDir) # {})
       => needsExtraction(srcMtime, outDirExists, outDir) = (srcMtime > NewestOutput(outDir))
  /\ (gate = "stale" /\ pc \in {"probe", "analyze"}) => StaleByRule(srcMtime, outDirExists, outDir)
  /\ (gate = "fresh" /\ pc = "done") => ~StaleByRule(srcMtime, outDirExists, outDir)

C8_Witness ==
  /\ gate = "stale" /\ pc = "probe"
  /\ {OldVariantA, OldVariantB} \subseteq DOMAIN outDir
  /\ outDir[OldVariantA] < srcMtime /\ outDir[OldVariantB] < srcMtime

\* stale by the rule of the claim: no output, or a source strictly newer
StaleFile(f) == ~f.out.exists \/ f.src > f.out.mtime

Indices(seq) == {seq[j] : j \in 1..Len(seq)}

\* C9: each single-file gate (needsExtraction of the first-frame script,
\* needsCompression, needsConversion) answers stale exactly when the output is
\* absent or the source is strictly newer; an output as new as the source, or
\* newer, is not stale
C9_FileGates ==
  /\ \A i \in 1..Len(inputFiles) :
       LET f == inputFiles[i]
       IN /\ needsExtractionOfFile(f.src, f.out) = StaleFile(f)
          /\ needsCompression(f.src, f.out) = StaleFile(f)
          /\ needsConversion(f.src, f.out) = StaleFile(f)
  /\ (prog \in {"compress", "convert"} /\ cursor = 1 /\ bpc \in {"probe", "work"})
       => \A i \in 1..Len(inputFiles) :
            /\ (i \in Indices(filesToProcess)) = StaleFile(inputFiles[i])
            /\ (i \in Indices(skippedFiles)) = ~StaleFile(inputFiles[i])
  /\ (prog = "firstframe" /\ bgate = "stale" /\ bpc \in {"probe", "work"})
       => StaleFile(inputFiles[1])
  /\ (prog = "firstframe" /\ bgate = "fresh") => ~StaleFile(inputFiles[1])

\* an output exactly as old as its source is skipped, beside a file to do
C9_Witness ==
  /\ prog = "convert" /\ bpc = "work" /\ cursor = 1
  /\ \E i \in Indices(skippedFiles) : inputFiles[i].src = inputFiles[i].out.mtime

Scored == prog = "scorer" /\ ssimPromise.state = "resolved"

\* the text holds "All:" followed at once by a decimal numeral: digits, or
\* digits and a point in either order
HoldsMetric(text) ==
  \E i \in 1..Len(text) :
    /\ i + 4 <= Len(text)
    /\ <<text[i], text[i + 1], text[i + 2], text[i + 3]>> = <<"A", "l", "l", ":">>
    /\ \/ isDigit(text[i + 4])
       \/ text[i + 4] = "." /\ i + 5 <= Len(text) /\ isDigit(text[i + 5])

\* C11: when the diagnostic text holds no parseable similarity metric the
\* scorer returns exactly 0.5 (and its promise is never rejected), whatever
\* the text
C11_UnparseableIsNeutral ==
  /\ ssimPromise.state # "rejected"
  /\ (Scored /\ ~HoldsMetric(ssimProc.output)) => ssimPromise.value = Num(50)

\* the text "All:." : the pattern matches, parseFloat(".") is NaN, 1 - NaN is returned
C11_Witness ==
  /\ Scored /\ ssimProc.ev = "close" /\ ssimProc.output = <<"A", "l", "l", ":", ".">>
  /\ ssimPromise.value.nan

\* C12: when the engine cannot be started or exits with a non-zero code the
\* scorer returns 0.5, whatever the text
C12_EngineFailureIsNeutral ==
  (Scored /\ (ssimProc.ev = "error" \/ ssimProc.code # 0)) => ssimPromise.value = Num(50)

\* exit code 1 after "All:0.8": 0.2 is returned
C12_Witness ==
  /\ Scored /\ ssimProc = [ev |-> "close", code |-> 1, output |-> <<"A", "l", "l", ":", "0", ".", "8">>]
  /\ ssimPromise.value = Num(20)

\* C13: every score returned is a number from 0 to 1: 1 minus the parsed
\* similarity, or the 0.5 fallback
C13_ScoreInRange ==
  Scored => /\ ~ssimPromise.value.nan
            /\ ssimPromise.value.value >= 0 /\ ssimPromise.value.value <= 100

\* the text "All:2": the score returned is -1
C13_Witness ==
  /\ Scored /\ ssimProc.output = <<"A", "l", "l", ":", "2">> /\ ssimProc.ev = "close"
  /\ ssimPromise.value = Num(-100)

\* the final extraction of the run has ended
Extracted == pc = "done" /\ extraction.ev # "none"

\* it failed: the engine could not be started, exited with a non-zero code, or
\* left no output file after exit code 0
ExtractionFailed ==
  \/ extraction.ev = "error"
  \/ extraction.ev = "close" /\ (extraction.code # 0 \/ ~extraction.exists)

\* C14: on the motion-analysis path and on the simple path, a failed final
\* extraction is delivered as the result value {success: false}: the run ends
\* by reading that value, never by a rejection or an exception
C14_FailureIsAResult ==
  /\ (Extracted /\ ExtractionFailed)
       => result = [success |-> FALSE, filename |-> <<>>, timestamp |-> 0] /\ outcome = "extractfailed"
  /\ Extracted => outcome \in {"extracted", "foundold", "extractfailed"}
  /\ (Extracted /\ ~ExtractionFailed) => result.success

\* exit code 0 and no output file, on the motion-analysis path
C14_Witness ==
  /\ Extracted /\ spawns.extract = 1
  /\ extraction = [ev |-> "close", code |-> 0, exists |-> FALSE]
  /\ ~result.success

\* C15: a failure result of the final extraction ends the run with a
\* non-zero exit status
C15_FailureExitsNonZero ==
  /\ (Extracted /\ ~result.success) => exitStatus > 0
  /\ (Extracted /\ result.success) => exitStatus = 0

C15_Witness ==
  /\ Extracted /\ spawns.simple = 1 /\ extraction.ev = "close" /\ extraction.code = 1
  /\ exitStatus = 1

\* C16: a run whose final extraction failed leaves every file the output
\* directory held at its start in place, the others unmodified
C16_SiblingsKept ==
  (Extracted /\ ~result.success)
    => /\ DOMAIN outDirAtStart \subseteq DOMAIN outDir
       /\ \A n \in DOMAIN outDirAtStart :
            n # outputFilename(extractAt) => outDir[n] = outDirAtStart[n]

\* two earlier outputs, and a failed engine that still wrote a third file
C16_Witness ==
  /\ Extracted /\ ~result.success /\ extraction.code = 1
  /\ {OldVariantA, OldVariantB} \subseteq DOMAIN outDirAtStart
  /\ outputFilename(extractAt) \in DOMAIN outDir \ DOMAIN outDirAtStart

\* no core logic ran: no gate, no probe, no selector, no extraction, and the
\* output directory is as it was
NoCoreLogic ==
  /\ gate = "none"
  /\ spawns.probe = 0 /\ spawns.sample = 0 /\ spawns.ssim = 0
  /\ spawns.extract = 0 /\ spawns.simple = 0
  /\ promise.state = "none" /\ extraction.ev = "none"
  /\ outDir = outDirAtStart

MissingPrerequisite == ffmpegAvailable = "no" \/ ~inputDirExists \/ ~hasVideo

\* C17 as stated: without the engine, the source directory or a supported
\* input file, the run is fatal (ends with an error status) and runs no core logic
C17_AsStated ==
  (pc = "done" /\ MissingPrerequisite) => exitStatus > 0 /\ NoCoreLogic

\* C17 amended: in these three cases the run ends before any core logic;
\* it ends with an error status when the engine or the source directory is
\* missing, and normally (status 0) when no supported input file is found
C17_PrerequisitesHalt ==
  /\ (pc = "done" /\ MissingPrerequisite) => NoCoreLogic
  /\ (pc = "done" /\ (ffmpegAvailable = "no" \/ ~inputDirExists)) => exitStatus = 1
  /\ (pc = "done" /\ ffmpegAvailable = "yes" /\ inputDirExists /\ ~hasVideo) => exitStatus = 0
  /\ (ffmpegAvailable # "unknown" /\ MissingPrerequisite) => pc = "done"

C17_Witness ==
  /\ pc = "done" /\ ffmpegAvailable = "yes" /\ inputDirExists /\ ~hasVideo
  /\ exitStatus = 0 /\ NoCoreLogic

\* the selector is in progress: analyzeMotion was called and has not settled
Selecting == pc = "analyze" /\ promise.state = "pending"

\* C18: in a run the gate comes first, the selector runs only when the gate
\* said stale, the extraction starts only once the selection has ended with a
\* timestamp, and the sampler and the scorer are started, and run, only while
\* a selection is in progress
C18_Order ==
  /\ [](/\ gate = "none" => (spawns.probe = 0 /\ spawns.sample = 0 /\ spawns.ssim = 0
                                 /\ spawns.extract = 0 /\ spawns.simple = 0)
        /\ gate = "fresh" => (spawns.probe = 0 /\ spawns.sample = 0 /\ spawns.ssim = 0
                                 /\ spawns.extract = 0 /\ spawns.simple = 0)
        /\ spawns.sample > 0
             => gate = "stale" /\ \A n \in FrameOutputs(outDirAtStart) : srcMtime > outDirAtStart[n]
        /\ spawns.ssim > 0 => spawns.sample = 1
        /\ (spawns.extract > 0 \/ spawns.simple > 0)
             => /\ spawns.sample = 1 /\ Settled
                /\ extractAt = (IF promise.state = "resolved" THEN promise.value ELSE 200)
        /\ (proc = "running" \/ loopI >= 1) => Selecting)
  /\ [][(spawns'.sample > spawns.sample \/ spawns'.ssim > spawns.ssim)
           => (pc' = "analyze" /\ promise'.state = "pending")]_vars

C18_Witness ==
  /\ pc = "extract" /\ gate = "stale" /\ spawns.sample = 1 /\ spawns.ssim = 2
  /\ spawns.extract = 1 /\ promise.state = "resolved" /\ extractAt = promise.value

Spawned ==
  spawns.version + spawns.probe + spawns.sample + spawns.ssim + spawns.extract + spawns.simple

\* C19: at most one engine process runs at any time, and a step that starts
\* one starts it alone: a handler of the end of the one before, or a step
\* taken while none runs
C19_OneEngineAtATime ==
  /\ [](Running <= 1)
  /\ [][Spawned' > Spawned
           => (Spawned' = Spawned + 1 /\ Running <= 1 /\ Running' = 1)]_vars

\* the third pair is being scored after five engine processes have ended
C19_Witness ==
  spawns.ssim = 3 /\ loopI = 3 /\ Running = 1 /\ Spawned = 6

\* C20 as stated: a run ends with an error status only after a missing
\* prerequisite or a failed final extraction
C20_AsStated ==
  (pc = "done" /\ exitStatus > 0)
    => \/ ffmpegAvailable = "no" \/ ~inputDirExists
       \/ Extracted /\ ExtractionFailed

\* C20 amended: a run ends with an error status only after a missing
\* prerequisite, a failed metadata probe or a failed final extraction; once
\* the probe has succeeded, a degenerate burst and a failed sampling or
\* selection each end in a timestamp and in one attempt of the extraction
C20_OnlyTheseStopTheRun ==
  /\ (pc = "done" /\ exitStatus > 0)
       => \/ ffmpegAvailable = "no" \/ ~inputDirExists
          \/ outcome = "probefailed" /\ spawns.probe = 1 /\ spawns.sample = 0
          \/ Extracted /\ ExtractionFailed
  /\ (pc = "done" /\ spawns.sample > 0)
       => Extracted /\ spawns.extract + spawns.simple = 1
  /\ (pc \in {"extract", "simple"})
       => extractAt = (CASE samplerEnd = "ok" /\ spawns.ssim = 0 -> 100
                         [] samplerEnd = "ok" /\ spawns.ssim > 0 -> promise.value
                         [] samplerEnd = "nonzero" -> 150
                         [] samplerEnd \in {"nostart", "readerr"} -> 200)

\* the sampler could not be started, and the run still wrote an image
C20_Witness ==
  /\ pc = "done" /\ samplerEnd = "nostart" /\ exitStatus = 0 /\ outcome = "extracted"
  /\ spawns.simple = 1

\* the name of the convention: firstframe--<seconds>-<tenths>s.webp
HyphenName(t) ==
  <<"firstframe", "--", ToString(t \div 100), "-", ToString((t % 100) \div 10), "s", ".webp">>

\* the entries of the output directory the current run wrote
WrittenInRun ==
  {n \in DOMAIN outDir : n \notin DOMAIN outDirAtStart \/ outDir[n] # outDirAtStart[n]}

\* C21: both extraction paths name their output firstframe--<T>s.webp, <T>
\* the timestamp with one decimal and a hyphen for the point (4.2 gives
\* firstframe--4-2s.webp, 2.0 gives firstframe--2-0s.webp); the file is
\* written in the output directory, and nothing at the placeholder temp.webp
C21_OutputName ==
  /\ outputFilename(420) = <<"firstframe", "--", "4", "-", "2", "s", ".webp">>
  /\ outputFilename(200) = <<"firstframe", "--", "2", "-", "0", "s", ".webp">>
  /\ (Extracted /\ result.success)
       => result.filename = HyphenName(extractAt) /\ result.filename \in DOMAIN outDir
  /\ \A n \in WrittenInRun :
       /\ n = HyphenName(extractAt)
       /\ n # <<"temp", ".webp">>
       /\ spawns.extract + spawns.simple = 1

C21_Witness ==
  /\ Extracted /\ result.success /\ spawns.simple = 1
  /\ result.filename = <<"firstframe", "--", "2", "-", "0", "s", ".webp">>
  /\ WrittenInRun = {result.filename}
  /\ <<"temp", ".webp">> \notin DOMAIN outDir

\* a run that wrote its output, after a run that wrote its own
SecondArtifact == run > 1 /\ prevArtifact.filename # <<>> /\ Extracted /\ outcome = "extracted"

\* C22 as stated: two runs that differ in the source video or in the
\* timestamp write to different file names
C22_AsStated ==
  (SecondArtifact /\ (srcChanged \/ result.timestamp # prevArtifact.timestamp))
    => result.filename # prevArtifact.filename

\* the timestamps a run can choose
Timestamps == {WindowStart + k * 50 : k \in 1..(MaxFrames + MaxLeftover + 2)}

\* C22 amended: two runs write to different file names exactly when their
\* timestamps differ; the name does not depend on the source video, and a
\* run on a modified source that chooses the same timestamp overwrites the
\* artifact of the earlier run
C22_NamesByTimestamp ==
  /\ \A t1, t2 \in Timestamps : (outputFilename(t1) = outputFilename(t2)) = (t1 = t2)
  /\ SecondArtifact
       => /\ (result.filename = prevArtifact.filename) = (result.timestamp = prevArtifact.timestamp)
          /\ result.timestamp # prevArtifact.timestamp
               => /\ prevArtifact.filename \in DOMAIN outDir
                  /\ outDir[prevArtifact.filename] = outDirAtStart[prevArtifact.filename]
          /\ result.timestamp = prevArtifact.timestamp
               => outDir[prevArtifact.filename] >= srcMtime

\* the source was modified, the same timestamp chosen, the same file written
C22_Witness ==
  /\ SecondArtifact /\ srcChanged
  /\ result.timestamp = prevArtifact.timestamp
  /\ result.filename = prevArtifact.filename
  /\ outDir[result.filename] > outDirAtStart[result.filename]

\* C23: for a burst of n >= 2 frames the scorer is called n - 1 times, once
\* per adjacent pair in order, and the score of the i-th pair is recorded
\* with the timestamp windowStart + 0.5 * i
C23_PairsScoredOnce ==
  /\ loopI >= 1
       => /\ spawns.ssim = loopI /\ Len(motionScores) = loopI - 1
          /\ loopI <= Len(frameFiles) - 1
  /\ \A k \in 1..Len(motionScores) :
       motionScores[k].frameIndex = k /\ motionScores[k].timestamp = WindowStart + 50 * k
  /\ (pc = "analyze" /\ samplerEnd = "ok" /\ Len(frameFiles) >= 2 /\ Settled)
       => spawns.ssim = Len(frameFiles) - 1 /\ Len(motionScores) = Len(frameFiles) - 1

C23_Witness ==
  /\ pc = "analyze" /\ Settled /\ Len(frameFiles) = 4 /\ spawns.ssim = 3
  /\ motionScores[3].timestamp = 200 /\ motionScores[1].timestamp = 100

\* C24: the burst read after sampling holds only frames the current
\* sampling wrote; frames already in temp_frames contribute no pair
C24_OnlyCurrentFrames ==
  \A k \in 1..Len(frameFiles) : frameFiles[k] = "new"

\* the sampler wrote no frame, two frames were left: one pair is scored
C24_Witness ==
  /\ pc = "analyze" /\ samplerEnd = "ok" /\ frameFiles = <<"old", "old">>
  /\ spawns.ssim = 1

\* C25: the timestamp handed to the final extraction is not beyond the end
\* of the video
C25_WithinDuration ==
  pc \in {"extract", "simple"} => extractAt <= videoDuration

\* a video of 1.0 second, the fallback at 2.0
C25_Witness ==
  pc = "simple" /\ videoDuration = 100 /\ extractAt = 200

\* the sampler could not be started
StartFailed == proc \in {"errored", "closedfirst", "failed"}

C27_OneExtraction ==
  /\ [](/\ spawns.extract + spawns.simple <= 1
        /\ spawns.extract = 1 => promise.state = "resolved"
        /\ spawns.simple = 1 => promise.state = "rejected"
        /\ (Extracted /\ spawns.extract = 1) => (spawns.simple = 0 /\ (ExtractionFailed => exitStatus = 1)))
  /\ [][pc = "extract" => pc' \in {"extract", "done"}]_vars

C27_Witness ==
  /\ Extracted /\ spawns.extract = 1 /\ extraction.ev = "error"
  /\ spawns.simple = 0 /\ exitStatus = 1

\* the filter loop of the compression or of the conversion has run
Filtered ==
  /\ prog \in {"compress", "convert"}
  /\ cursor >= 1 \/ (bpc = "done" /\ bexit = 0)

\* the file at position j of filesToProcess has not been attempted yet
NotAttempted(j) == j > cursor \/ (j = cursor /\ bpc = "probe")

\* C28: in the compression and in the conversion every discovered file is in
\* exactly one of filesToProcess and skippedFiles, skipped when its gate says
\* not stale, and when the run has ended successCount + failureCount is the
\* length of filesToProcess
C28_CountsAddUp ==
  /\ Filtered =>
       /\ \A i \in 1..Len(inputFiles) :
            (i \in Indices(filesToProcess)) # (i \in Indices(skippedFiles))
       /\ Len(filesToProcess) + Len(skippedFiles) = Len(inputFiles)
       /\ \A j \in 1..Len(skippedFiles) : ~needsUpdate(prog, inputFiles[skippedFiles[j]])
       /\ \A j \in 1..Len(filesToProcess) :
            NotAttempted(j) => needsUpdate(prog, inputFiles[filesToProcess[j]])
  /\ (prog \in {"compress", "convert"} /\ bpc = "done")
       => successCount + failureCount = Len(filesToProcess)

\* the compression died in the close handler of its first file of two: the
\* engine exited with 0 and there is no output file to stat
C28_Witness ==
  /\ prog = "compress" /\ bpc = "done" /\ bexit = 1
  /\ cursor = 1 /\ Len(filesToProcess) = 2
  /\ ~inputFiles[filesToProcess[1]].out.exists
  /\ successCount + failureCount = 0

\* the step counts a failure of the file the loop is at and goes on with the
\* next file of the list, or with the summary after the last one
FailureCounted ==
  /\ failureCount' = failureCount + 1
  /\ successCount' = successCount
  /\ filesToProcess' = filesToProcess
  /\ cursor' = cursor + 1
  /\ IF cursor < Len(filesToProcess)
     THEN bpc' = "probe" /\ bexit' = -1
     ELSE bpc' = "done" /\ bexit' = 0

\* C29: in the compression a failure on one file (the probe rejects, the
\* engine exits non-zero or cannot be started) is counted and does not stop
\* the run: the files of the list are attempted in list order, one at a time
C29_FailureGoesOn ==
  /\ [][(prog = "compress" /\ failureCount' # failureCount) => FailureCounted]_vars
  /\ [][(prog = "compress" /\ bpc = "probe")
          => (bpc' = "work" /\ cursor' = cursor /\ failureCount' = failureCount)
             \/ FailureCounted]_vars
  /\ [][(prog = "compress" /\ bpc = "work" /\ failureCount' = failureCount)
          => \/ /\ successCount' = successCount + 1
                /\ cursor' = cursor + 1
                /\ inputFiles'[filesToProcess[cursor]].out.exists
             \/ /\ bexit' = 1
                /\ ~inputFiles'[filesToProcess[cursor]].out.exists]_vars
  /\ [][(prog = "compress" /\ cursor' # cursor)
          => (cursor' = cursor + 1 /\ (cursor >= 1 => filesToProcess' = filesToProcess))]_vars
  /\ [](prog = "compress" /\ bpc \in {"probe", "work"} => cursor \in 1..Len(filesToProcess))

\* the first file of two failed, and the engine runs on the second
C29_Witness ==
  /\ prog = "compress" /\ bpc = "work" /\ cursor = 2 /\ Len(filesToProcess) = 2
  /\ failureCount = 1 /\ successCount = 0

\* the run waits for an event of an engine process
Awaiting ==
  \/ pc \in {"checkFFmpeg", "probe", "extract", "simple"}
  \/ pc = "analyze" /\ promise.state = "pending"

\* C30: when every engine process that was started emits "close", every run
\* ends, with status 0 or with status 1; and while a run waits for an engine
\* only an event of an engine moves it: no step stands for a timeout
C30_RunsEnd ==
  /\ (pc # "done") ~> (pc = "done" /\ exitStatus \in {0, 1})
  /\ [][Awaiting =>
          \/ CheckFFmpegDone \/ ProbeDone
          \/ SamplerError \/ SamplerClose \/ ScorerDone
          \/ ExtractClose \/ ExtractError
          \/ SimpleClose \/ SimpleError]_vars
  /\ [](pc = "analyze" => (promise.state # "pending" \/ proc = "running" \/ loopI >= 1))

\* a run that waited for the probe, the sampler, three scorers and the
\* extraction has ended
C30_Witness ==
  /\ pc = "done" /\ exitStatus = 0
  /\ spawns.probe = 1 /\ spawns.sample = 1 /\ spawns.ssim = 3 /\ spawns.extract = 1

====
